---- MODULE Spec2Model ----
(***************************************************************************)
(* Model of src/app.py ("Dr. Macadamia"): load_kb builds a Datalog         *)
(* knowledge base (has_symptom, treated_with, derived cures_symptom) from  *)
(* a CSV table, interning every name as a 32-bit id; two button handlers   *)
(* query it.                                                               *)
(*                                                                         *)
(* Python values are modelled as sequences of one-character strings (a     *)
(* str), or as the one-element sequences PyNone / PyInt (None, a non-zero  *)
(* int).  A z3 bit-vector value is its number; NoId stands for the Python  *)
(* None that get_id returns instead of a bit-vector.  The Datalog engine   *)
(* is modelled by what a query answers: the set of values of the query's   *)
(* variable for which the queried atom is derivable.                       *)
(***************************************************************************)
EXTENDS Integers, Sequences, FiniteSets, TLC

\* ------------------------------------------------------------------ bounds
MaxRows == 2

\* ------------------------------------------------------ python values
PyNone == <<"None">>
PyInt == <<"int">>
NoId == 0

Char == {" ", "'", "\"", "a", "b", "t", "u", "x", "y"}
Whitespace == {" "}

Ord(c) ==
    CASE c = " " -> 32
      [] c = "\"" -> 34
      [] c = "'" -> 39
      [] c = "a" -> 97
      [] c = "b" -> 98
      [] c = "t" -> 116
      [] c = "u" -> 117
      [] c = "x" -> 120
      [] c = "y" -> 121

IsStr(v) == \A i \in 1..Len(v) : v[i] \in Char

\* str.__lt__: lexicographic by code point, a proper prefix first
RECURSIVE StrLess(_, _)
StrLess(u, v) ==
    IF v = <<>> THEN FALSE
    ELSE IF u = <<>> THEN TRUE
    ELSE IF Head(u) = Head(v) THEN StrLess(Tail(u), Tail(v))
    ELSE Ord(Head(u)) < Ord(Head(v))

\* sorted(list(S)) for a set S of str
RECURSIVE Sorted(_)
Sorted(S) ==
    IF S = {} THEN <<>>
    ELSE LET m == CHOOSE x \in S : \A y \in S \ {x} : StrLess(x, y)
         IN <<m>> \o Sorted(S \ {m})

Range(q) == {q[i] : i \in 1..Len(q)}

\* ------------------------------------------------------------ str.strip
RECURSIVE LStrip(_, _)
LStrip(s, chars) ==
    IF s # <<>> /\ Head(s) \in chars THEN LStrip(Tail(s), chars) ELSE s

RECURSIVE RStrip(_, _)
RStrip(s, chars) ==
    IF s # <<>> /\ s[Len(s)] \in chars
    THEN RStrip(SubSeq(s, 1, Len(s) - 1), chars)
    ELSE s

Strip(s, chars) == RStrip(LStrip(s, chars), chars)

\* text.strip().strip("'").strip('"')
clean(text) == Strip(Strip(Strip(text, Whitespace), {"'"}), {"\""})

\* ------------------------------------------------------------ the table
\* the name column: two spellings of one disease, and another disease
DiseaseNames == { <<"a">>, <<" ", "a">>, <<"b">> }

\* a cell is what ast.literal_eval makes of it: "empty" is the empty cell
\* (never evaluated), "bad" a cell literal_eval rejects, "list" a list
SymptomCells ==
    { [kind |-> "bad", elems |-> <<>>],
      [kind |-> "list", elems |-> << <<" ", "x">>, <<"b">> >>],
      [kind |-> "list", elems |-> << <<"x">>, PyInt, <<"y">> >>] }

TreatmentCells ==
    { [kind |-> "empty", elems |-> <<>>],
      [kind |-> "list", elems |-> << <<"t">> >>],
      [kind |-> "list", elems |-> << <<"u">> >>] }

Rows == [name : DiseaseNames, symptoms : SymptomCells, treatments : TreatmentCells]

VARIABLES
    fileExists,     \* whether macadamia.csv can be opened
    pc,             \* where the script is
    table,          \* the rows read so far
    str_to_id, id_to_str, counter,
    has_symptom, treated_with,
    all_symptoms, all_diseases,
    ret,            \* the tuple load_kb returned
    symptoms, diseases,
    errorShown,     \* st.error("... file not found.") was rendered
    lastOp,         \* the handler that ran last and its selection
    out,            \* what that handler rendered, in order
    exc             \* that handler raised

internVars == <<str_to_id, id_to_str, counter>>
kbVars == <<str_to_id, id_to_str, counter, has_symptom, treated_with,
            all_symptoms, all_diseases, symptoms, diseases>>
uiVars == <<lastOp, out, exc>>
vars == <<fileExists, pc, table, str_to_id, id_to_str, counter, has_symptom,
          treated_with, all_symptoms, all_diseases, ret, symptoms, diseases,
          errorShown, lastOp, out, exc>>

\* ------------------------------------------------------------- interning
Interner == [str_to_id |-> str_to_id, id_to_str |-> id_to_str, counter |-> counter]

\* BitVecVal(counter, Thing), Thing = BitVecSort(32): the number modulo 2^32,
\* which is the number itself for every counter a table of MaxRows rows reaches
BitVecVal(n) == n

\* get_id without "if clean not in str_to_id": every call interns anew
get_id_always_interns(text, I) ==
    IF text = PyNone \/ text = <<>>
    THEN [val |-> NoId, I |-> I, exc |-> FALSE]
    ELSE IF ~IsStr(text)
    THEN [val |-> NoId, I |-> I, exc |-> TRUE]
    ELSE LET c == clean(text)
             v == BitVecVal(I.counter)
             J == [str_to_id |-> [n \in DOMAIN I.str_to_id \cup {c} |->
                                     IF n = c THEN v ELSE I.str_to_id[n]],
                   id_to_str |-> [k \in DOMAIN I.id_to_str \cup {I.counter} |->
                                     IF k = I.counter THEN c ELSE I.id_to_str[k]],
                   counter |-> I.counter + 1]
         IN [val |-> v, I |-> J, exc |-> FALSE]

\* get_id without "counter += 1": every new name gets the same id
get_id_no_increment(text, I) ==
    IF text = PyNone \/ text = <<>>
    THEN [val |-> NoId, I |-> I, exc |-> FALSE]
    ELSE IF ~IsStr(text)
    THEN [val |-> NoId, I |-> I, exc |-> TRUE]
    ELSE LET c == clean(text) IN
         IF c \in DOMAIN I.str_to_id
         THEN [val |-> I.str_to_id[c], I |-> I, exc |-> FALSE]
         ELSE LET v == BitVecVal(I.counter)
                  J == [str_to_id |-> [n \in DOMAIN I.str_to_id \cup {c} |->
                                          IF n = c THEN v ELSE I.str_to_id[n]],
                        id_to_str |-> [k \in DOMAIN I.id_to_str \cup {I.counter} |->
                                          IF k = I.counter THEN c ELSE I.id_to_str[k]],
                        counter |-> I.counter]
              IN [val |-> v, I |-> J, exc |-> FALSE]

\* get_id: the value returned, the interner afterwards, whether it raised
get_id(text, I) ==
    IF text = PyNone \/ text = <<>>
    THEN [val |-> NoId, I |-> I, exc |-> FALSE]
    ELSE IF ~IsStr(text)
    THEN [val |-> NoId, I |-> I, exc |-> TRUE]
    ELSE LET c == clean(text) IN
         IF c \in DOMAIN I.str_to_id
         THEN [val |-> I.str_to_id[c], I |-> I, exc |-> FALSE]
         ELSE LET v == BitVecVal(I.counter)
                  J == [str_to_id |-> [n \in DOMAIN I.str_to_id \cup {c} |->
                                          IF n = c THEN v ELSE I.str_to_id[n]],
                        id_to_str |-> [k \in DOMAIN I.id_to_str \cup {I.counter} |->
                                          IF k = I.counter THEN c ELSE I.id_to_str[k]],
                        counter |-> I.counter + 1]
              IN [val |-> v, I |-> J, exc |-> FALSE]

\* get_name: id_to_str.get(val.as_long(), str(val))
get_name(val, I) ==
    IF val \in DOMAIN I.id_to_str THEN I.id_to_str[val] ELSE <<"#">>

\* rel(x, y) of a z3 FuncDeclRef: casting None to a bit-vector raises
MkAppRaises(x, y) == x = NoId \/ y = NoId

\* ---------------------------------------------------------------- load_kb
\* for s in ast.literal_eval(row['symptoms']): fact, then all_symptoms.add(s);
\* the enclosing try ends the loop at the first exception
RECURSIVE LoadSymptoms(_, _, _)
LoadSymptoms(elems, disease_id, K) ==
    IF elems = <<>> THEN K
    ELSE LET s == Head(elems)
             r == get_id(s, K.I)
         IN IF r.exc THEN [K EXCEPT !.I = r.I]
            ELSE IF MkAppRaises(disease_id, r.val) THEN [K EXCEPT !.I = r.I]
            ELSE LoadSymptoms(Tail(elems), disease_id,
                     [I |-> r.I,
                      has_symptom |-> K.has_symptom \cup {<<disease_id, r.val>>},
                      all_symptoms |-> K.all_symptoms \cup {s}])

\* for t in ast.literal_eval(row['treatments']): fact treated_with(get_id(t), disease_id)
RECURSIVE LoadTreatments(_, _, _)
LoadTreatments(elems, disease_id, K) ==
    IF elems = <<>> THEN K
    ELSE LET r == get_id(Head(elems), K.I)
         IN IF r.exc THEN [K EXCEPT !.I = r.I]
            ELSE IF MkAppRaises(r.val, disease_id) THEN [K EXCEPT !.I = r.I]
            ELSE LoadTreatments(Tail(elems), disease_id,
                     [I |-> r.I,
                      treated_with |-> K.treated_with \cup {<<r.val, disease_id>>}])

\* the elements the loop iterates: none for an empty cell (row.get is falsy)
\* and none for a cell literal_eval raises on
CellElems(cell) == IF cell.kind = "list" THEN cell.elems ELSE <<>>

\* one iteration of "for row in reader"
RowEffect(row, I, hs, tw, syms, dis) ==
    LET r0 == get_id(row.name, I)
        K1 == LoadSymptoms(CellElems(row.symptoms), r0.val,
                  [I |-> r0.I, has_symptom |-> hs, all_symptoms |-> syms])
        K2 == LoadTreatments(CellElems(row.treatments), r0.val,
                  [I |-> K1.I, treated_with |-> tw])
    IN [I |-> K2.I, has_symptom |-> K1.has_symptom, treated_with |-> K2.treated_with,
        all_symptoms |-> K1.all_symptoms, all_diseases |-> dis \cup {row.name}]

\* the rule with the two body atoms not joined on d
cures_symptom_no_join ==
    {<<p[1], q[2]>> : <<p, q>> \in treated_with \X has_symptom}

\* the rule with the head's arguments exchanged: cures_symptom(s, t)
cures_symptom_head_swapped ==
    {<<q[2], p[1]>> : <<p, q>> \in
        {pq \in treated_with \X has_symptom : pq[1][2] = pq[2][1]}}

\* cures_symptom(t, s) :- treated_with(t, d), has_symptom(d, s)
cures_symptom ==
    {<<p[1], q[2]>> : <<p, q>> \in
        {pq \in treated_with \X has_symptom : pq[1][2] = pq[2][1]}}

NotFoundTuple == [i \in 1..8 |-> "None"]
LoadedTuple == <<"fp", "has_symptom", "treated_with", "cures_symptom", "get_id",
                 "get_name", "symptoms", "diseases", "Thing">>

NoOp == [op |-> "none", sel |-> PyNone]

Init ==
    /\ fileExists \in BOOLEAN
    /\ pc = "start"
    /\ table = <<>>
    /\ str_to_id = <<>>
    /\ id_to_str = <<>>
    /\ counter = 1
    /\ has_symptom = {}
    /\ treated_with = {}
    /\ all_symptoms = {}
    /\ all_diseases = {}
    /\ ret = <<>>
    /\ symptoms = <<>>
    /\ diseases = <<>>
    /\ errorShown = FALSE
    /\ lastOp = NoOp
    /\ out = <<>>
    /\ exc = FALSE

\* open('macadamia.csv') succeeds
OpenFile ==
    /\ pc = "start"
    /\ fileExists
    /\ pc' = "loading"
    /\ UNCHANGED <<fileExists, table, kbVars, ret, errorShown, uiVars>>

\* open raises FileNotFoundError: load_kb returns its not-found tuple
OpenFails ==
    /\ pc = "start"
    /\ ~fileExists
    /\ ret' = NotFoundTuple
    /\ pc' = "returned"
    /\ UNCHANGED <<fileExists, table, kbVars, errorShown, uiVars>>

LoadRow(row) ==
    /\ pc = "loading"
    /\ Len(table) < MaxRows
    /\ \E e \in {RowEffect(row, Interner, has_symptom, treated_with,
                           all_symptoms, all_diseases)} :
          /\ str_to_id' = e.I.str_to_id
          /\ id_to_str' = e.I.id_to_str
          /\ counter' = e.I.counter
          /\ has_symptom' = e.has_symptom
          /\ treated_with' = e.treated_with
          /\ all_symptoms' = e.all_symptoms
          /\ all_diseases' = e.all_diseases
    /\ table' = Append(table, row)
    /\ UNCHANGED <<fileExists, pc, ret, symptoms, diseases, errorShown, uiVars>>

\* the reader is exhausted: the rule is added and the 9-tuple returned
Return ==
    /\ pc = "loading"
    /\ symptoms' = Sorted(all_symptoms)
    /\ diseases' = Sorted(all_diseases)
    /\ ret' = LoadedTuple
    /\ pc' = "returned"
    /\ UNCHANGED <<fileExists, table, internVars, has_symptom, treated_with,
                   all_symptoms, all_diseases, errorShown, uiVars>>

\* fp, ..., ThingType = load_kb(); if not fp: st.error(...); st.stop()
UnpackTarget(r) ==
    IF Len(r) # 9 THEN "crashed"
    ELSE IF r[1] = "None" THEN "stopped"
    ELSE "ready"

Unpack ==
    /\ pc = "returned"
    /\ pc' = UnpackTarget(ret)
    /\ errorShown' = (UnpackTarget(ret) = "stopped")
    /\ UNCHANGED <<fileExists, table, kbVars, ret, uiVars>>

\* ---------------------------------------------------------------- queries
\* the bit-vector values of the answer, as names, sorted
parse_results(ans, I) == Sorted({get_name(v, I) : v \in ans})

Msg(kind, names) == [kind |-> kind, names |-> names]
Each(kind, names) == [i \in 1..Len(names) |-> Msg(kind, <<names[i]>>)]

\* PRESCRIPTION part of the Diagnose Problem handler
Prescription(s_id, I) ==
    LET cure == {p[1] : p \in {q \in cures_symptom : q[2] = s_id}}
        treatments == parse_results(cure, I)
    IN IF cure # {}
       THEN IF treatments # <<>>
            THEN <<Msg("treatments", treatments)>>
            ELSE <<Msg("no_specific_treatment", <<>>)>>
       ELSE <<Msg("no_cure", <<>>)>>

\* the Diagnose Problem handler on the selected symptom
DiagnoseRun(sel, I) ==
    LET r == get_id(sel, I)
        s_id == r.val
        diag == {p[1] : p \in {q \in has_symptom : q[2] = s_id}}
        diseases_found == parse_results(diag, r.I)
        found_disease == diag # {} /\ diseases_found # <<>>
    IN IF MkAppRaises(1, s_id)
       THEN [out |-> <<>>, exc |-> TRUE, I |-> r.I]
       ELSE [out |-> (IF diag # {} THEN Each("cause", diseases_found)
                                   ELSE <<Msg("unknown_disease", <<>>)>>)
                     \o (IF found_disease THEN Prescription(s_id, r.I) ELSE <<>>),
             exc |-> FALSE, I |-> r.I]

\* the Get Info handler on the selected disease
GetInfoRun(sel, I) ==
    LET r == get_id(sel, I)
        d_id == r.val
        sym == {p[2] : p \in {q \in has_symptom : q[1] = d_id}}
        treat == {p[1] : p \in {q \in treated_with : q[2] = d_id}}
    IN IF MkAppRaises(d_id, 1)
       THEN [out |-> <<>>, exc |-> TRUE, I |-> r.I]
       ELSE [out |-> (IF sym # {} THEN Each("symptom", parse_results(sym, r.I))
                                  ELSE <<Msg("no_symptoms", <<>>)>>)
                     \o (IF treat # {} THEN Each("treatment", parse_results(treat, r.I))
                                       ELSE <<Msg("no_treatments", <<>>)>>),
             exc |-> FALSE, I |-> r.I]

\* st.selectbox(..., index=None): one of the options, or None
Selectable(options) == Range(options) \cup {PyNone}

Diagnose(sel) ==
    /\ pc = "ready"
    /\ \E h \in {DiagnoseRun(sel, Interner)} :
          /\ out' = h.out
          /\ exc' = h.exc
          /\ str_to_id' = h.I.str_to_id
          /\ id_to_str' = h.I.id_to_str
          /\ counter' = h.I.counter
    /\ lastOp' = [op |-> "diagnose", sel |-> sel]
    /\ UNCHANGED <<fileExists, pc, table, has_symptom, treated_with, all_symptoms,
                   all_diseases, ret, symptoms, diseases, errorShown>>

GetInfo(sel) ==
    /\ pc = "ready"
    /\ \E h \in {GetInfoRun(sel, Interner)} :
          /\ out' = h.out
          /\ exc' = h.exc
          /\ str_to_id' = h.I.str_to_id
          /\ id_to_str' = h.I.id_to_str
          /\ counter' = h.I.counter
    /\ lastOp' = [op |-> "info", sel |-> sel]
    /\ UNCHANGED <<fileExists, pc, table, has_symptom, treated_with, all_symptoms,
                   all_diseases, ret, symptoms, diseases, errorShown>>

LoadSomeRow == \E row \in Rows : LoadRow(row)
DiagnoseSome == \E sel \in Selectable(symptoms) : Diagnose(sel)
GetInfoSome == \E sel \in Selectable(diseases) : GetInfo(sel)

Next ==
    \/ OpenFile
    \/ OpenFails
    \/ LoadSomeRow
    \/ Return
    \/ Unpack
    \/ DiagnoseSome
    \/ GetInfoSome

Spec == Init /\ [][Next]_vars

\* ------------------------------------------------- the four query results
\* the names rendered in messages of one kind, in rendering order
RECURSIVE Collect(_, _)
Collect(o, kind) ==
    IF o = <<>> THEN <<>>
    ELSE (IF Head(o).kind = kind THEN Head(o).names ELSE <<>>) \o Collect(Tail(o), kind)

diseasesWith(s) == Collect(DiagnoseRun(s, Interner).out, "cause")
treatmentsFor(s) == Collect(DiagnoseRun(s, Interner).out, "treatments")
symptomsOf(d) == Collect(GetInfoRun(d, Interner).out, "symptom")
treatmentsOf(d) == Collect(GetInfoRun(d, Interner).out, "treatment")

\* the entity a name denotes in the relations
EntityOf(n) == get_id(n, Interner).val

NoneFoundKinds == {"unknown_disease", "no_cure", "no_symptoms", "no_treatments"}
TreatmentKinds == {"treatments", "no_specific_treatment", "no_cure"}

\* a cell that cannot be processed as a list of names
IsName(e) == IsStr(e) /\ e # <<>>
Unprocessable(cell) ==
    \/ cell.kind = "bad"
    \/ cell.kind = "list" /\ \E i \in 1..Len(cell.elems) : ~IsName(cell.elems[i])

LoadedOk == pc = "ready" \/ (pc = "returned" /\ ret = LoadedTuple)

\* ------------------------------------------------------------------ C1
\* C1: when the file is missing, the caller shows the "file not found" error
\* and stops: once the load has been consumed the script is in the "error
\* shown, stopped" state and in no other failure state.
C1_MissingFileStops ==
    (~fileExists /\ pc \notin {"start", "returned"}) => (pc = "stopped" /\ errorShown)

\* ------------------------------------------------------------------ C2
NamesNoEntity(sel) == sel = PyNone \/ clean(sel) \notin DOMAIN str_to_id

\* C2: a query whose input names no loaded entity (nothing selected included)
\* ends in the "none found" outcome, never in an exception.
C2_UnknownIsNoneFound ==
    (pc = "ready" /\ lastOp.op # "none" /\ NamesNoEntity(lastOp.sel))
        => /\ ~exc
           /\ out # <<>>
           /\ \A i \in 1..Len(out) : out[i].kind \in NoneFoundKinds

\* ------------------------------------------------------------------ C3
\* C3: a row whose symptom cell cannot be processed as a list of names adds no
\* has_symptom fact and no symptom list entry, also when the failure comes
\* part-way through the list; its disease is still registered, its treatments
\* are still loaded and no earlier fact is lost.
C3_BadRowStep ==
    (Len(table') = Len(table) + 1 /\ Unprocessable(table'[Len(table')].symptoms))
        => LET row == table'[Len(table')]
               d == get_id(row.name, [str_to_id |-> str_to_id', id_to_str |-> id_to_str',
                                      counter |-> counter']).val
           IN /\ has_symptom' = has_symptom
              /\ all_symptoms' = all_symptoms
              /\ row.name \in all_diseases'
              /\ treated_with \subseteq treated_with'
              /\ d # NoId =>
                    \A i \in 1..Len(CellElems(row.treatments)) :
                        \E p \in treated_with' :
                            /\ p[2] = d
                            /\ id_to_str'[p[1]] = clean(CellElems(row.treatments)[i])

C3_BadSymptomCellAddsNothing == [][C3_BadRowStep]_vars

\* ------------------------------------------------------------------ C4
\* the distinct symptom names the table lists for the disease named d: the
\* names in the cells of its rows, trimmed; a cell that cannot be processed
\* counts either with the names it does hold or, as an empty list, with none
ListedNames(d) ==
    UNION { {clean(e) : e \in {x \in Range(CellElems(table[i].symptoms)) : IsName(x)}}
            : i \in {j \in 1..Len(table) : table[j].name = d} }

ListedWhole(d) ==
    UNION { IF Unprocessable(table[i].symptoms) THEN {}
            ELSE {clean(e) : e \in Range(CellElems(table[i].symptoms))}
            : i \in {j \in 1..Len(table) : table[j].name = d} }

\* C4: for every loaded disease d, symptomsOf(d) is exactly the distinct
\* symptom names the table lists for d, each once, sorted ascending.
C4_SymptomsOfExact ==
    pc = "ready" =>
        \A d \in Range(diseases) :
            /\ ~GetInfoRun(d, Interner).exc
            /\ symptomsOf(d) \in {Sorted(ListedNames(d)), Sorted(ListedWhole(d))}

\* ------------------------------------------------------------------ C5
\* the sorted distinct union of treatmentsOf(d) over the diseases d of the
\* disease list that the names found (a diseasesWith result) denote
UnionOfTreatments(found) ==
    Sorted(UNION { Range(treatmentsOf(d)) :
                   d \in {e \in Range(diseases) :
                            get_name(EntityOf(e), Interner) \in Range(found)} })

\* C5: treatmentsFor(s) is the sorted, duplicate-free union of treatmentsOf(d)
\* over every d in diseasesWith(s), for every symptom s of the symptom list,
\* and that is what the Diagnose Problem handler rendered.
C5_TreatmentsForIsUnion ==
    pc = "ready" =>
        /\ \A s \in Range(symptoms) : \A o \in {DiagnoseRun(s, Interner).out} :
              Collect(o, "treatments") = UnionOfTreatments(Collect(o, "cause"))
        /\ (lastOp.op = "diagnose" /\ ~exc)
              => /\ Collect(out, "cause") = diseasesWith(lastOp.sel)
                 /\ Collect(out, "treatments") = UnionOfTreatments(Collect(out, "cause"))

\* two diseases share a symptom and have different treatments: the handler
\* rendered both diseases and the union of their treatments
C5_Witness ==
    /\ pc = "ready"
    /\ lastOp.op = "diagnose"
    /\ Len(Collect(out, "cause")) = 2
    /\ Collect(out, "treatments") = << <<"t">>, <<"u">> >>

\* ------------------------------------------------------------------ C6
\* C6: for every symptom s of the symptom list and every disease d of the
\* disease list, d is in diseasesWith(s) iff s is in symptomsOf(d), comparing
\* the names the lists offer with the names the queries return.
C6_JoinSymmetry ==
    pc = "ready" =>
        \A s \in Range(symptoms) : \A d \in Range(diseases) :
            (d \in Range(diseasesWith(s))) <=> (s \in Range(symptomsOf(d)))

\* ------------------------------------------------------------------ C7
\* C7: once loaded, no handler run changes the facts, the offered lists or
\* the interned entities.
C7_ImmutableAfterLoad == [][pc = "ready" => UNCHANGED kbVars]_vars

\* a handler ran on a known name and rendered a result
C7_Witness ==
    /\ pc = "ready"
    /\ lastOp.op = "info"
    /\ lastOp.sel # PyNone
    /\ Collect(out, "symptom") # <<>>
    /\ Collect(out, "treatment") # <<>>

\* ------------------------------------------------------------------ C8
StrictlySorted(q) == \A i \in 1..(Len(q) - 1) : StrLess(q[i], q[i + 1])

OneEntryPerEntity(q) ==
    /\ \A i \in 1..Len(q) : EntityOf(q[i]) # NoId
    /\ \A i \in 1..Len(q) : \A j \in 1..Len(q) :
          i # j => EntityOf(q[i]) # EntityOf(q[j])

\* C8: the symptom list and the disease list are sorted ascending, hold every
\* distinct name once, and no two entries of a list denote the same entity:
\* one entry per disease entity of the table, one per symptom entity that
\* some disease has.
C8_ListsSortedDistinct ==
    LoadedOk =>
        /\ StrictlySorted(symptoms)
        /\ StrictlySorted(diseases)
        /\ OneEntryPerEntity(symptoms)
        /\ OneEntryPerEntity(diseases)
        /\ {EntityOf(n) : n \in Range(symptoms)} = {p[2] : p \in has_symptom}
        /\ Range(diseases) = {table[i].name : i \in 1..Len(table)}

\* ------------------------------------------------------------------ C9
ProbeTexts ==
    DiseaseNames \cup {PyNone}
        \cup UNION {Range(c.elems) : c \in SymptomCells \cup TreatmentCells}

\* C9: str_to_id and id_to_str are mutually inverse, the ids are exactly
\* 1..counter-1, get_id on an interned name returns its id and changes
\* nothing, a second get_id repeats the first, and get_id on an empty or None
\* text returns None and changes nothing.
C9_InterningInvariant ==
    /\ DOMAIN id_to_str = 1..(counter - 1)
    /\ {str_to_id[n] : n \in DOMAIN str_to_id} = 1..(counter - 1)
    /\ \A n \in DOMAIN str_to_id : id_to_str[str_to_id[n]] = n
    /\ \A k \in DOMAIN id_to_str :
          id_to_str[k] \in DOMAIN str_to_id /\ str_to_id[id_to_str[k]] = k
    /\ \A m \in DOMAIN str_to_id : \A n \in DOMAIN str_to_id :
          m # n => str_to_id[m] # str_to_id[n]
    /\ \A text \in ProbeTexts :
          \A r \in {get_id(text, Interner)} : \A again \in {get_id(text, r.I)} :
             /\ (text = PyNone \/ text = <<>>) => (r.val = NoId /\ r.I = Interner)
             /\ (IsName(text) /\ clean(text) \in DOMAIN str_to_id)
                   => (r.val = str_to_id[clean(text)] /\ r.I = Interner)
             /\ IsName(text) => (r.val \in 1..(r.I.counter - 1)
                                 /\ again.val = r.val /\ again.I = r.I)

\* several names are interned, one of them under two spellings, and a handler
\* has called get_id again on an interned name
C9_Witness ==
    /\ pc = "ready"
    /\ counter > 4
    /\ Cardinality(all_diseases) > Cardinality({EntityOf(n) : n \in all_diseases})
    /\ lastOp.op = "diagnose"
    /\ lastOp.sel # PyNone
    /\ ~exc

\* ------------------------------------------------------------------ C10
\* C10: in the Diagnose Problem handler a treatment outcome is rendered only
\* after a found disease was rendered; and the gate hides nothing: for an
\* entity that no disease has as a symptom the treatment query finds no cure.
C10_TreatmentGatedByDiagnosis ==
    pc = "ready" =>
        /\ \A sel \in Selectable(symptoms) :
              LET o == DiagnoseRun(sel, Interner).out
              IN \A j \in 1..Len(o) :
                    o[j].kind \in TreatmentKinds
                        => \E i \in 1..(j - 1) : o[i].kind = "cause"
        /\ lastOp.op = "diagnose" =>
              \A j \in 1..Len(out) :
                  out[j].kind \in TreatmentKinds
                      => \E i \in 1..(j - 1) : out[i].kind = "cause"
        /\ \A k \in DOMAIN id_to_str :
              {q \in has_symptom : q[2] = k} = {}
                  => Prescription(k, Interner) = <<Msg("no_cure", <<>>)>>

\* the handler rendered a disease and then its treatments, while some entity
\* that is no symptom (the treatment itself) is in the knowledge base
C10_Witness ==
    /\ pc = "ready"
    /\ lastOp.op = "diagnose"
    /\ out # <<>>
    /\ out[1].kind = "cause"
    /\ out[Len(out)].kind = "treatments"
    /\ \E k \in DOMAIN id_to_str : {q \in has_symptom : q[2] = k} = {}

====
